---------------------------- MODULE Spec2Model ----------------------------
(***************************************************************************)
(* A model of package gors (src/gors.go): Client, Request, the dispatch    *)
(* operations Send / SendWithCtx and the generic SendWithJSONResponse.     *)
(*                                                                         *)
(* Strings are sequences of one-character strings, so that path joining,   *)
(* URL parsing, escaping and header-name canonicalisation are computed     *)
(* character by character.  The single token "H" abbreviates a scheme and  *)
(* authority such as "https://api.example.com".                            *)
(***************************************************************************)
EXTENDS Integers, Sequences, FiniteSets, TLC

(***************************************************************************)
(* Bounds of the model.                                                    *)
(***************************************************************************)
MaxPathLen == 3      \* longest Request.Path tried
MaxBasePathLen == 2  \* longest path component of a base URL tried
MaxMaps == 4         \* map objects on the heap
MaxRequests == 2     \* Requests created by NewRequest
MaxCalls == 4        \* API calls in one run of the builder specification
MaxTime == 2         \* latest clock value at which a call may start
MaxTimeout == 2      \* largest duration given to SetTimeout

(***************************************************************************)
(* Strings.                                                                *)
(***************************************************************************)
RECURSIVE StrsOfLen(_, _)
StrsOfLen(chars, n) ==
  IF n = 0 THEN {<<>>}
  ELSE {<<c>> \o s : c \in chars, s \in StrsOfLen(chars, n - 1)}

StrsUpTo(chars, n) == UNION {StrsOfLen(chars, i) : i \in 0..n}

\* strings.HasSuffix(s, "/")
HasSuffix(s, c) == Len(s) > 0 /\ s[Len(s)] = c

\* Index of the first occurrence of c in s, 0 when there is none.
RECURSIVE IndexFrom(_, _, _)
IndexFrom(s, c, i) ==
  IF i > Len(s) THEN 0
  ELSE IF s[i] = c THEN i
  ELSE IndexFrom(s, c, i + 1)

Index(s, c) == IndexFrom(s, c, 1)

\* strings.Split(s, c): the pieces of s between occurrences of c.
RECURSIVE Split(_, _)
Split(s, c) ==
  LET i == Index(s, c) IN
  IF i = 0 THEN <<s>>
  ELSE <<SubSeq(s, 1, i - 1)>> \o Split(SubSeq(s, i + 1, Len(s)), c)

\* strings.Join(parts, c)
RECURSIVE JoinWith(_, _)
JoinWith(parts, c) ==
  IF Len(parts) = 0 THEN <<>>
  ELSE IF Len(parts) = 1 THEN parts[1]
  ELSE parts[1] \o <<c>> \o JoinWith(Tail(parts), c)

(***************************************************************************)
(* path.Clean and path.Join, as used at src/gors.go:134.                   *)
(***************************************************************************)
DotDot == <<".", ".">>

\* The elements Clean keeps: empty and "." elements are dropped, ".."
\* removes the element before it, is dropped at the root of a rooted path
\* and is kept at the start of a relative one.
RECURSIVE CleanSegs(_, _, _)
CleanSegs(segs, out, rooted) ==
  IF Len(segs) = 0 THEN out
  ELSE LET s == Head(segs)
           rest == Tail(segs) IN
    IF s = <<>> \/ s = <<".">> THEN CleanSegs(rest, out, rooted)
    ELSE IF s = DotDot THEN
      IF Len(out) > 0 /\ out[Len(out)] # DotDot
        THEN CleanSegs(rest, SubSeq(out, 1, Len(out) - 1), rooted)
      ELSE IF rooted THEN CleanSegs(rest, out, rooted)
      ELSE CleanSegs(rest, Append(out, s), rooted)
    ELSE CleanSegs(rest, Append(out, s), rooted)

Clean(p) ==
  IF p = <<>> THEN <<".">>
  ELSE LET rooted == p[1] = "/"
           body == JoinWith(CleanSegs(Split(p, "/"), <<>>, rooted), "/")
           res == IF rooted THEN <<"/">> \o body ELSE body IN
    IF res = <<>> THEN <<".">> ELSE res

\* path.Join(a, b): empty elements are ignored, the rest is joined with a
\* separator and cleaned; the result is empty only when both are empty.
PathJoin(a, b) ==
  IF a = <<>> /\ b = <<>> THEN <<>>
  ELSE IF a = <<>> THEN Clean(b)
  ELSE Clean(a \o <<"/">> \o b)

(***************************************************************************)
(* net/url as used by SendWithCtx: url.Parse (src/gors.go:133), URL.String *)
(* and the re-parse inside http.NewRequestWithContext (src/gors.go:143),   *)
(* URL.Query, Values.Add and Values.Encode (src/gors.go:153-159).          *)
(***************************************************************************)
\* The characters percent-encoding rewrites, each with its two hex digits.
EscChars == <<"?", "%", "&", "=", "/", ";">>
EscCodes == <<<<"3", "F">>, <<"2", "5">>, <<"2", "6">>, <<"3", "D">>,
              <<"2", "F">>, <<"3", "B">>>>

EscIndex(c) == IF \E i \in 1..Len(EscChars) : EscChars[i] = c
               THEN CHOOSE i \in 1..Len(EscChars) : EscChars[i] = c
               ELSE 0

CodeIndex(d) == IF \E i \in 1..Len(EscCodes) : EscCodes[i] = d
                THEN CHOOSE i \in 1..Len(EscCodes) : EscCodes[i] = d
                ELSE 0

\* Percent-encode every character of s that is in the set enc.
RECURSIVE Escape(_, _)
Escape(s, enc) ==
  IF Len(s) = 0 THEN <<>>
  ELSE (IF Head(s) \in enc THEN <<"%">> \o EscCodes[EscIndex(Head(s))]
        ELSE <<Head(s)>>) \o Escape(Tail(s), enc)

\* In a path "/" and ";"-free text stay as they are; "?" and "%" are encoded.
EscapePath(s) == Escape(s, {"?", "%"})
\* In a query key or value every reserved character is encoded.
QueryEscape(s) == Escape(s, {"?", "%", "&", "=", "/", ";"})

\* unescape: [ok, s]; a "%" that is not followed by two hex digits is an
\* error ("invalid URL escape").
RECURSIVE Unescape(_)
Unescape(s) ==
  IF Len(s) = 0 THEN [ok |-> TRUE, s |-> <<>>]
  ELSE IF Head(s) = "%" THEN
    IF Len(s) < 3 \/ CodeIndex(SubSeq(s, 2, 3)) = 0 THEN [ok |-> FALSE, s |-> <<>>]
    ELSE LET r == Unescape(SubSeq(s, 4, Len(s))) IN
      [ok |-> r.ok, s |-> <<EscChars[CodeIndex(SubSeq(s, 2, 3))]>> \o r.s]
  ELSE LET r == Unescape(Tail(s)) IN [ok |-> r.ok, s |-> <<Head(s)>> \o r.s]

NoURL == [ok |-> FALSE, Host |-> FALSE, Path |-> <<>>, RawQuery |-> <<>>]

\* url.Parse: a leading ":" is "missing protocol scheme"; the text after
\* the first "?" is RawQuery; "H" is the scheme and authority; the rest is
\* the path, which must unescape.  A failed parse yields a nil *URL (NoURL).
Parse(raw) ==
  IF Len(raw) > 0 /\ raw[1] = ":" THEN NoURL
  ELSE LET q == Index(raw, "?")
           rest == IF q = 0 THEN raw ELSE SubSeq(raw, 1, q - 1)
           query == IF q = 0 THEN <<>> ELSE SubSeq(raw, q + 1, Len(raw))
           host == Len(rest) > 0 /\ rest[1] = "H"
           p == Unescape(IF host THEN Tail(rest) ELSE rest) IN
    IF p.ok THEN [ok |-> TRUE, Host |-> host, Path |-> p.s, RawQuery |-> query]
    ELSE NoURL

\* URL.String: scheme and authority, a "/" before a relative path when
\* there is a host, the escaped path, and "?" RawQuery when it is not empty.
URLString(u) ==
  (IF u.Host THEN <<"H">> ELSE <<>>)
  \o (IF u.Host /\ Len(u.Path) > 0 /\ u.Path[1] # "/" THEN <<"/">> ELSE <<>>)
  \o EscapePath(u.Path)
  \o (IF u.RawQuery # <<>> THEN <<"?">> \o u.RawQuery ELSE <<>>)

\* url.Values: a function from keys to the sequence of their values.
EmptyValues == [k \in {} |-> <<>>]

\* Values.Add: append, never replace.
ValuesAdd(q, k, v) ==
  IF k \in DOMAIN q THEN [q EXCEPT ![k] = Append(@, v)]
  ELSE [x \in DOMAIN q \cup {k} |-> IF x = k THEN <<v>> ELSE q[x]]

\* url.ParseQuery, its error dropped as URL.Query drops it: the pairs are
\* split at "&"; an empty pair, a pair holding ";" and a pair whose key or
\* value does not unescape are skipped.
RECURSIVE ParsePairs(_, _)
ParsePairs(pairs, q) ==
  IF Len(pairs) = 0 THEN q
  ELSE LET p == Head(pairs)
           e == Index(p, "=")
           k == Unescape(IF e = 0 THEN p ELSE SubSeq(p, 1, e - 1))
           v == Unescape(IF e = 0 THEN <<>> ELSE SubSeq(p, e + 1, Len(p))) IN
    IF p = <<>> \/ Index(p, ";") # 0 \/ ~k.ok \/ ~v.ok
      THEN ParsePairs(Tail(pairs), q)
    ELSE ParsePairs(Tail(pairs), ValuesAdd(q, k.s, v.s))

ParseQuery(raw) == ParsePairs(Split(raw, "&"), EmptyValues)

\* The order Values.Encode sorts keys in: byte order, by character rank.
CharOrder == <<"%", "&", ".", "/", "1", "2", ";", "=", "?", "H", "a", "k", "q", "v">>
Rank(c) == IF \E i \in 1..Len(CharOrder) : CharOrder[i] = c
           THEN CHOOSE i \in 1..Len(CharOrder) : CharOrder[i] = c
           ELSE 0

RECURSIVE StrLess(_, _)
StrLess(a, b) ==
  IF Len(b) = 0 THEN FALSE
  ELSE IF Len(a) = 0 THEN TRUE
  ELSE IF Head(a) # Head(b) THEN Rank(Head(a)) < Rank(Head(b))
  ELSE StrLess(Tail(a), Tail(b))

RECURSIVE SortedKeys(_)
SortedKeys(ks) ==
  IF ks = {} THEN <<>>
  ELSE LET m == CHOOSE x \in ks : \A y \in ks \ {x} : StrLess(x, y) IN
    <<m>> \o SortedKeys(ks \ {m})

RECURSIVE EncodeKey(_, _)
EncodeKey(k, vs) ==
  IF Len(vs) = 0 THEN <<>>
  ELSE <<QueryEscape(k) \o <<"=">> \o QueryEscape(Head(vs))>> \o EncodeKey(k, Tail(vs))

RECURSIVE EncodePairs(_, _)
EncodePairs(q, keys) ==
  IF Len(keys) = 0 THEN <<>>
  ELSE EncodeKey(Head(keys), q[Head(keys)]) \o EncodePairs(q, Tail(keys))

\* Values.Encode: "k=v" for every value of every key, keys sorted.
Encode(q) == JoinWith(EncodePairs(q, SortedKeys(DOMAIN q)), "&")

(***************************************************************************)
(* Header names and values.                                                *)
(***************************************************************************)
LowerCase == <<"a", "c", "e", "n", "o", "p", "t", "x", "y">>
UpperCase == <<"A", "C", "E", "N", "O", "P", "T", "X", "Y">>

LetterIndex(cs, c) == IF \E i \in 1..Len(cs) : cs[i] = c
                      THEN CHOOSE i \in 1..Len(cs) : cs[i] = c
                      ELSE 0

ToUpper(c) == IF LetterIndex(LowerCase, c) # 0 THEN UpperCase[LetterIndex(LowerCase, c)] ELSE c
ToLower(c) == IF LetterIndex(UpperCase, c) # 0 THEN LowerCase[LetterIndex(UpperCase, c)] ELSE c

\* textproto.CanonicalMIMEHeaderKey, which http.Header.Set applies to the
\* key (src/gors.go:150): the first letter and every letter after a "-" in
\* upper case, every other letter in lower case.
CanonicalKey(k) ==
  [i \in 1..Len(k) |-> IF i = 1 \/ k[i - 1] = "-" THEN ToUpper(k[i]) ELSE ToLower(k[i])]

ContentType == <<"C", "o", "n", "t", "e", "n", "t", "-", "T", "y", "p", "e">>
ContentTypeLower == <<"c", "o", "n", "t", "e", "n", "t", "-", "t", "y", "p", "e">>
ApplicationJSON == <<"a", "p", "p", "l", "i", "c", "a", "t", "i", "o", "n", "/",
                     "j", "s", "o", "n">>

\* A value of type interface{}: an integer or a string.
IntValue(i) == [t |-> "int", i |-> i, s |-> <<>>]
StrValue(s) == [t |-> "str", i |-> 0, s |-> s]
Digits == <<<<"1">>, <<"2">>, <<"3">>>>

\* fmt.Sprintf("%v", value) (src/gors.go:71, 101, 106)
Sprintf(value) == IF value.t = "int" THEN Digits[value.i] ELSE value.s

\* map[string]string: a function from the keys present to their values.
EmptyMap == [k \in {} |-> <<>>]
MapPut(m, k, v) == [x \in DOMAIN m \cup {k} |-> IF x = k THEN v ELSE m[x]]

(***************************************************************************)
(* The state.                                                              *)
(***************************************************************************)
VARIABLES
  client,          \* the Client: BaseURL, DefaultHeaders (a heap index, 0 = nil)
  heap,            \* the map objects: element i is the map with reference i
  callerMaps,      \* references of the maps the caller made and still holds
  requests,        \* the Requests made by NewRequest, in order
  call,            \* the dispatch call of the calling goroutine
  now,             \* the clock
  calls,           \* number of calls made (bounds the builder specification)
  hist,            \* per Request: when it was made, what it was seeded with,
                   \* the default-header snapshots seen while it was made, and
                   \* the last value SetHeader wrote for each canonical name
  setterDefaults,  \* the default headers as the Client's setters alone made them
  callerView,      \* each caller map as the caller's own writes alone made it
  iter,            \* a NewRequest call that another goroutine runs step by step
  race             \* a map was written while another goroutine iterated it

vars == <<client, heap, callerMaps, requests, call, now, calls, hist,
          setterDefaults, callerView, iter, race>>

\* src/gors.go:83: the default Timeout, in seconds.
DefaultTimeout == 10

\* The default headers as a map value (a nil map has no entries).
DefaultView == IF client.DefaultHeaders = 0 THEN EmptyMap ELSE heap[client.DefaultHeaders]

HeadersOf(r) == heap[requests[r].Headers]

NoResponse == [nil |-> TRUE, body |-> "", buffered |-> FALSE]
NoCtx == [hasDeadline |-> FALSE, deadline |-> 0, cancelable |-> FALSE, done |-> ""]
NoOut == [Method |-> <<>>, URL |-> NoURL, Header |-> EmptyMap, Body |-> ""]

IdleCall == [pc |-> "idle", entry |-> "", req |-> 0, ctx |-> NoCtx, endpoint |-> "",
             start |-> 0, timeout |-> 0, apiPath |-> <<>>, out |-> NoOut,
             res |-> NoResponse, err |-> "", value |-> "zero", closes |-> 0]

IdleIter == [active |-> FALSE, c |-> [BaseURL |-> <<>>, DefaultHeaders |-> 0],
             Method |-> <<>>, Path |-> <<>>, hdr |-> 0, startKeys |-> {},
             visited |-> {}, snaps |-> {}]

\* NewClient: the base URL is stored as given, DefaultHeaders is nil.
NewClient(baseUrl) == [BaseURL |-> baseUrl, DefaultHeaders |-> 0]

InitWith(baseUrl) ==
  /\ client = NewClient(baseUrl)
  /\ heap = <<>>
  /\ callerMaps = {}
  /\ requests = <<>>
  /\ call = IdleCall
  /\ now = 0
  /\ calls = 0
  /\ hist = <<>>
  /\ setterDefaults = EmptyMap
  /\ callerView = EmptyMap
  /\ iter = IdleIter
  /\ race = FALSE

\* The calling goroutine is not blocked inside a dispatch and has not crashed.
CallerFree == call.pc \in {"idle", "returned"}

\* One more call from the program that uses the package; a run makes at
\* most MaxCalls of them.
Budget == calls < MaxCalls /\ calls' = calls + 1

(***************************************************************************)
(* The caller's own maps.                                                  *)
(***************************************************************************)
\* h := map[string]string{...}
CallerMakeMap(m) ==
  /\ Budget /\ CallerFree
  /\ Len(heap) < MaxMaps
  /\ heap' = Append(heap, m)
  /\ callerMaps' = callerMaps \cup {Len(heap) + 1}
  /\ callerView' = MapPut(callerView, Len(heap) + 1, m)
  /\ UNCHANGED <<client, requests, call, now, hist, setterDefaults, iter, race>>

\* h[k] = v, on a map the caller made earlier
CallerMutate(h, k, v) ==
  /\ Budget /\ CallerFree
  /\ h \in callerMaps
  /\ heap' = [heap EXCEPT ![h] = MapPut(@, k, v)]
  /\ callerView' = [callerView EXCEPT ![h] = MapPut(@, k, v)]
  /\ UNCHANGED <<client, callerMaps, requests, call, now, hist, setterDefaults, iter, race>>

(***************************************************************************)
(* Client.                                                                 *)
(***************************************************************************)
\* The ghost record of the snapshots a running NewRequest has seen.
SnapsAfter(view) ==
  IF iter.active THEN [iter EXCEPT !.snaps = @ \cup {view}] ELSE iter

\* SetDefaultHeaders(h): the field is set to the caller's map itself.
SetDefaultHeaders(h) ==
  /\ Budget /\ CallerFree
  /\ h \in callerMaps \cup {0}
  /\ client' = [client EXCEPT !.DefaultHeaders = h]
  /\ setterDefaults' = (IF h = 0 THEN EmptyMap ELSE heap[h])
  /\ iter' = SnapsAfter(IF h = 0 THEN EmptyMap ELSE heap[h])
  /\ UNCHANGED <<heap, callerMaps, requests, call, now, hist, callerView, race>>

\* AddDefaultHeader(key, value): a nil map is made first; the entry is
\* written into the map DefaultHeaders refers to.
AddDefaultHeader(key, value) ==
  /\ Budget /\ CallerFree
  /\ client.DefaultHeaders = 0 => Len(heap) < MaxMaps
  /\ LET made == client.DefaultHeaders = 0
         ref == IF made THEN Len(heap) + 1 ELSE client.DefaultHeaders
         h1 == IF made THEN Append(heap, EmptyMap) ELSE heap IN
     /\ heap' = [h1 EXCEPT ![ref] = MapPut(@, key, Sprintf(value))]
     /\ client' = [client EXCEPT !.DefaultHeaders = ref]
     /\ iter' = SnapsAfter(MapPut(h1[ref], key, Sprintf(value)))
     /\ race' = (race \/ (iter.active /\ iter.c.DefaultHeaders = ref))
  /\ setterDefaults' = MapPut(setterDefaults, key, Sprintf(value))
  /\ UNCHANGED <<callerMaps, requests, call, now, hist, callerView>>

\* A NewRequest that hands out the Client's own map instead of a copy.
NewRequestHeadersAliased(c) ==
  IF c.DefaultHeaders = 0 THEN Len(heap) + 1 ELSE c.DefaultHeaders

\* The map NewRequest hands to the Request: a new map object
\* (make(map[string]string), src/gors.go:82).
NewRequestHeaders(c) == Len(heap) + 1

\* The entries the loop at src/gors.go:86-88 copies, one SetHeader each.
SeededHeaders(c) ==
  IF c.DefaultHeaders = 0 THEN EmptyMap
  ELSE [k \in DOMAIN heap[c.DefaultHeaders] |-> Sprintf(StrValue(heap[c.DefaultHeaders][k]))]

NewHist(seeded, snaps) ==
  [created |-> now, seeded |-> seeded, snaps |-> snaps, written |-> EmptyMap]

\* NewRequest(method, path), run by the calling goroutine without
\* interruption.  The receiver is a copy of the Client.
NewRequest(method, path) ==
  /\ Budget /\ CallerFree
  /\ ~iter.active
  /\ Len(requests) < MaxRequests
  /\ Len(heap) < MaxMaps
  /\ LET c == client
         ref == NewRequestHeaders(c)
         made == Append(heap, EmptyMap)
         h1 == IF ref = Len(heap) + 1 THEN made ELSE heap IN
     /\ heap' = [h1 EXCEPT ![ref] = [k \in DOMAIN @ \cup DOMAIN SeededHeaders(c) |->
                                      IF k \in DOMAIN SeededHeaders(c)
                                      THEN SeededHeaders(c)[k] ELSE @[k]]]
     /\ requests' = Append(requests,
          [baseURL |-> c.BaseURL, Method |-> method, Path |-> path,
           Query |-> EmptyMap, Body |-> "", Headers |-> ref,
           Timeout |-> DefaultTimeout])
     /\ hist' = Append(hist, NewHist(SeededHeaders(c), {DefaultView}))
  /\ UNCHANGED <<client, callerMaps, call, now, setterDefaults, callerView, iter, race>>

(***************************************************************************)
(* NewRequest run by a second goroutine, one step of src/gors.go:77-91 at  *)
(* a time, while the first goroutine goes on calling the Client's setters. *)
(* The loop over the map visits each key once; a key written into the map  *)
(* while the loop runs may be visited or skipped.                          *)
(***************************************************************************)
NewRequestBegin(method, path) ==
  /\ Budget
  /\ ~iter.active
  /\ Len(requests) < MaxRequests
  /\ Len(heap) < MaxMaps
  /\ heap' = Append(heap, EmptyMap)
  /\ iter' = [active |-> TRUE, c |-> client, Method |-> method, Path |-> path,
              hdr |-> Len(heap) + 1,
              startKeys |-> DOMAIN DefaultView,
              visited |-> {}, snaps |-> {DefaultView}]
  /\ UNCHANGED <<client, callerMaps, requests, call, now, hist, setterDefaults,
                 callerView, race>>

NewRequestStep ==
  /\ iter.active
  /\ iter.c.DefaultHeaders # 0
  /\ \E k \in DOMAIN heap[iter.c.DefaultHeaders] \ iter.visited :
       /\ heap' = [heap EXCEPT ![iter.hdr] =
                     MapPut(@, k, Sprintf(StrValue(heap[iter.c.DefaultHeaders][k])))]
       /\ iter' = [iter EXCEPT !.visited = @ \cup {k}]
  /\ UNCHANGED <<client, callerMaps, requests, call, now, calls, hist,
                 setterDefaults, callerView, race>>

NewRequestEnd ==
  /\ iter.active
  /\ iter.startKeys \subseteq iter.visited
  /\ requests' = Append(requests,
       [baseURL |-> iter.c.BaseURL, Method |-> iter.Method, Path |-> iter.Path,
        Query |-> EmptyMap, Body |-> "", Headers |-> iter.hdr,
        Timeout |-> DefaultTimeout])
  /\ hist' = Append(hist, NewHist(heap[iter.hdr], iter.snaps))
  /\ iter' = IdleIter
  /\ UNCHANGED <<client, heap, callerMaps, call, now, calls, setterDefaults,
                 callerView, race>>

(***************************************************************************)
(* Request: the setters.                                                   *)
(***************************************************************************)
IsRequest(r) == r \in 1..Len(requests)

SetTimeout(r, d) ==
  /\ Budget /\ CallerFree /\ IsRequest(r)
  /\ requests' = [requests EXCEPT ![r].Timeout = d]
  /\ UNCHANGED <<client, heap, callerMaps, call, now, hist, setterDefaults,
                 callerView, iter, race>>

\* What one SetHeader(key, value) does to the heap and to the record of the
\* last value written per canonical name.
HeapAfterSetHeader(hp, r, key, value) ==
  [hp EXCEPT ![requests[r].Headers] = MapPut(@, key, Sprintf(value))]

SetHeader(r, key, value) ==
  /\ Budget /\ CallerFree /\ IsRequest(r)
  /\ heap' = HeapAfterSetHeader(heap, r, key, value)
  /\ hist' = [hist EXCEPT ![r].written = MapPut(@, CanonicalKey(key), Sprintf(value))]
  /\ UNCHANGED <<client, callerMaps, requests, call, now, setterDefaults,
                 callerView, iter, race>>

SetQuery(r, key, value) ==
  /\ Budget /\ CallerFree /\ IsRequest(r)
  /\ requests' = [requests EXCEPT ![r].Query = MapPut(@, key, Sprintf(value))]
  /\ UNCHANGED <<client, heap, callerMaps, call, now, hist, setterDefaults,
                 callerView, iter, race>>

SetBody(r, body) ==
  /\ Budget /\ CallerFree /\ IsRequest(r)
  /\ requests' = [requests EXCEPT ![r].Body = body]
  /\ UNCHANGED <<client, heap, callerMaps, call, now, hist, setterDefaults,
                 callerView, iter, race>>

\* json.Marshal(v): an error for a value JSON cannot represent, else the
\* encoding of v.
Marshal(v) == IF v = "chan" THEN [ok |-> FALSE, j |-> ""]
              ELSE [ok |-> TRUE, j |-> "json:" \o v]

\* SetJSONBody(v): on a Marshal error nothing is changed; otherwise the
\* body is set and SetHeader("Content-Type", "application/json") is called.
SetJSONBody(r, v) ==
  /\ Budget /\ CallerFree /\ IsRequest(r)
  /\ IF ~Marshal(v).ok
     THEN UNCHANGED <<requests, heap, hist>>
     ELSE /\ requests' = [requests EXCEPT ![r].Body = Marshal(v).j]
          /\ heap' = HeapAfterSetHeader(heap, r, ContentType, StrValue(ApplicationJSON))
          /\ hist' = [hist EXCEPT ![r].written = MapPut(@, ContentType, ApplicationJSON)]
  /\ UNCHANGED <<client, callerMaps, call, now, setterDefaults, callerView, iter, race>>

(***************************************************************************)
(* Dispatch: SendWithCtx, Send, SendWithJSONResponse.                      *)
(***************************************************************************)
\* The orders in which a range loop may visit the keys of a map.
Orders(keys) ==
  {o \in [1..Cardinality(keys) -> keys] : {o[i] : i \in 1..Cardinality(keys)} = keys}

\* src/gors.go:149-151: req.Header.Set(k, v) for every entry, in the order
\* the loop visits them; Set stores under the canonical name and replaces.
RECURSIVE ApplyHeaders(_, _, _)
ApplyHeaders(m, order, header) ==
  IF Len(order) = 0 THEN header
  ELSE ApplyHeaders(m, Tail(order),
                    MapPut(header, CanonicalKey(Head(order)), m[Head(order)]))

\* src/gors.go:153-159: the query of the request URL, every entry of
\* Request.Query added to it, encoded again.  (Each key of Request.Query is
\* added once, so the order of that loop does not show.)
RECURSIVE AddAll(_, _, _)
AddAll(q, m, keys) ==
  IF keys = {} THEN q
  ELSE LET k == CHOOSE x \in keys : TRUE IN
    AddAll(ValuesAdd(q, k, m[k]), m, keys \ {k})

MergedQuery(rawQuery, query) == Encode(AddAll(ParseQuery(rawQuery), query, DOMAIN query))

\* src/gors.go:134-138: the joined path, with a "/" appended when the
\* Request's path ends with one.
ApiPath(basePath, path) ==
  IF HasSuffix(path, "/") THEN PathJoin(basePath, path) \o <<"/">>
  ELSE PathJoin(basePath, path)

\* http.NewRequestWithContext rejects a method that is not a token; an
\* empty method means GET.
ValidMethod(m) == \A i \in 1..Len(m) : m[i] # " "

\* What SendWithCtx has done when it reaches client.Do or leaves before it.
Built(kind, p, out, err) == [kind |-> kind, apiPath |-> p, out |-> out, err |-> err]

\* src/gors.go:149-161: the headers and the query are applied to the
\* request built, and client.Do is called; a URL without scheme and host is
\* refused by the transport at once ("unsupported protocol scheme").
BuildRequest(rq, headers, order, p, reqURL) ==
  IF ~reqURL.Host
    THEN Built("error", p,
               [Method |-> IF rq.Method = <<>> THEN <<"G", "E", "T">> ELSE rq.Method,
                URL |-> [reqURL EXCEPT !.RawQuery = MergedQuery(@, rq.Query)],
                Header |-> ApplyHeaders(headers, order, EmptyMap),
                Body |-> rq.Body],
               "unsupported protocol scheme")
  ELSE Built("do", p,
             [Method |-> IF rq.Method = <<>> THEN <<"G", "E", "T">> ELSE rq.Method,
              URL |-> [reqURL EXCEPT !.RawQuery = MergedQuery(@, rq.Query)],
              Header |-> ApplyHeaders(headers, order, EmptyMap),
              Body |-> rq.Body],
             "")

\* src/gors.go:143-147: http.NewRequestWithContext checks the method and
\* parses the URL text; its error is returned.
BuildChecked(rq, headers, order, p, reqURL) ==
  IF ~ValidMethod(rq.Method) THEN Built("error", p, NoOut, "invalid method")
  ELSE IF ~reqURL.ok THEN Built("error", p, NoOut, "parse")
  ELSE BuildRequest(rq, headers, order, p, reqURL)

\* src/gors.go:134-143: the path is joined into apiURL and apiURL.String()
\* is handed to http.NewRequestWithContext.
BuildJoined(rq, headers, order, apiURL, p) ==
  BuildChecked(rq, headers, order, p, Parse(URLString([apiURL EXCEPT !.Path = p])))

\* src/gors.go:133-134: the error of url.Parse is dropped; writing the Path
\* of the nil *URL of a failed parse is a nil pointer dereference.
BuildParsed(rq, headers, order, apiURL) ==
  IF ~apiURL.ok THEN Built("panic", <<>>, NoOut, "")
  ELSE BuildJoined(rq, headers, order, apiURL, ApiPath(apiURL.Path, rq.Path))

\* SendWithCtx up to client.Do (src/gors.go:133-161), for one visiting
\* order of the headers: "panic" when url.Parse failed, "error" when the
\* request cannot be built or the transport refuses the URL at once, "do"
\* when the request goes out.
Build(rq, headers, order) == BuildParsed(rq, headers, order, Parse(rq.baseURL))

\* context.Background()
Background == NoCtx

\* A deadline that counts from the moment the Request was made.
SendDeadlineFromCreation(r, t) == hist[r].created + requests[r].Timeout

\* src/gors.go:173: context.WithTimeout(context.Background(), r.Timeout),
\* called at time t: the deadline is t + Timeout.
SendDeadline(r, t) == t + requests[r].Timeout

WithDeadline(d) == [hasDeadline |-> TRUE, deadline |-> d, cancelable |-> TRUE, done |-> ""]

\* context.WithCancel(context.Background())
WithCancel == [hasDeadline |-> FALSE, deadline |-> 0, cancelable |-> TRUE, done |-> ""]

CtxDone(ctx, t) == ctx.done # "" \/ (ctx.hasDeadline /\ t >= ctx.deadline)

\* cancel(): a context that is already done keeps its error.
Cancel(ctx) == IF ctx.done = "" THEN [ctx EXCEPT !.done = "canceled"] ELSE ctx

\* The call once SendWithCtx has returned (res, err): SendWithCtx hands
\* them to its caller; Send runs its deferred cancel first
\* (src/gors.go:174); SendWithJSONResponse returns at once on an error
\* (src/gors.go:192-194) and goes on to read the body otherwise.
AfterSendWithCtx(c, res, err) ==
  LET d == [c EXCEPT !.res = res, !.err = err] IN
  IF c.entry = "SendWithCtx" THEN [d EXCEPT !.pc = "returned"]
  ELSE IF c.entry = "Send" \/ err # ""
    THEN [d EXCEPT !.pc = "returned", !.ctx = Cancel(c.ctx)]
  ELSE [d EXCEPT !.pc = "sent", !.ctx = Cancel(c.ctx)]

\* The call record of a dispatch that starts now.
NewCall(r, ctx, entry, ep) ==
  [IdleCall EXCEPT !.entry = entry, !.req = r, !.ctx = ctx, !.endpoint = ep,
                   !.start = now, !.timeout = requests[r].Timeout]

\* The call once SendWithCtx has reached client.Do, returned or crashed.
Started(c, b) ==
  IF b.kind = "panic" THEN [c EXCEPT !.pc = "panicked"]
  ELSE IF b.kind = "error"
    THEN AfterSendWithCtx([c EXCEPT !.apiPath = b.apiPath, !.out = b.out], NoResponse, b.err)
  ELSE [c EXCEPT !.pc = "do", !.apiPath = b.apiPath, !.out = b.out]

\* The start of a dispatch of Request r under context ctx, with ep the
\* behaviour of the endpoint during this call.
StartCall(r, ctx, entry, ep) ==
  /\ Budget /\ CallerFree /\ IsRequest(r)
  /\ now <= MaxTime
  /\ \E order \in Orders(DOMAIN HeadersOf(r)) :
       call' = Started(NewCall(r, ctx, entry, ep),
                       Build(requests[r], HeadersOf(r), order))
  /\ UNCHANGED <<client, heap, callerMaps, requests, now, hist, setterDefaults,
                 callerView, iter, race>>

SendWithCtx(r, ctx, ep) == StartCall(r, ctx, "SendWithCtx", ep)

Send(r, ep) == StartCall(r, WithDeadline(SendDeadline(r, now)), "Send", ep)

SendWithJSONResponse(r, ep) ==
  StartCall(r, WithDeadline(SendDeadline(r, now)), "SendWithJSONResponse", ep)

CallFrame == UNCHANGED <<client, heap, callerMaps, requests, now, calls, hist,
                         setterDefaults, callerView, iter, race>>

\* client.Do returns a response: the endpoint answered before the context
\* was done.  buffered says whether the whole body had arrived by then.
TransportRespond(body, buffered) ==
  /\ call.pc = "do" /\ call.endpoint = "responds"
  /\ ~CtxDone(call.ctx, now)
  /\ call' = AfterSendWithCtx(call, [nil |-> FALSE, body |-> body, buffered |-> buffered], "")
  /\ CallFrame

\* client.Do returns a connection error.
TransportFail ==
  /\ call.pc = "do" /\ call.endpoint = "refuses"
  /\ call' = AfterSendWithCtx(call, NoResponse, "connection refused")
  /\ CallFrame

\* The deadline of the context passes while client.Do waits.
CtxDeadline ==
  /\ call.pc = "do" /\ call.ctx.done = ""
  /\ call.ctx.hasDeadline /\ now >= call.ctx.deadline
  /\ call' = AfterSendWithCtx([call EXCEPT !.ctx.done = "deadline"], NoResponse,
                              "context deadline exceeded")
  /\ CallFrame

\* The owner of a context given to SendWithCtx cancels it.
ExternalCancel ==
  /\ call.pc = "do" /\ call.entry = "SendWithCtx"
  /\ call.ctx.cancelable /\ call.ctx.done = ""
  /\ call' = AfterSendWithCtx([call EXCEPT !.ctx.done = "canceled"], NoResponse,
                              "context canceled")
  /\ CallFrame

\* io.ReadAll(res.Body) (src/gors.go:196): the part of the body that had
\* not arrived can only be read while the request's context is not done.
ReadAll(res, ctx) ==
  IF res.buffered \/ ctx.done = "" THEN [ok |-> TRUE, err |-> ""]
  ELSE [ok |-> FALSE, err |-> "context canceled"]

\* json.Unmarshal(body, &j) into T
Unmarshal(body) == IF body = "valid" THEN [ok |-> TRUE, err |-> ""]
                   ELSE [ok |-> FALSE, err |-> "decode: " \o body]

\* A Close that is deferred only after the read error has been checked.
DeferredCloseAfterCheck(exit) == IF exit = "read" THEN 0 ELSE 1

\* src/gors.go:197: defer res.Body.Close(), registered before any of the
\* three returns that follow it: one Close on each of them.
DeferredClose(exit) == 1

\* SendWithJSONResponse after Send has returned a response
\* (src/gors.go:196-209).
ReadAndDecode ==
  /\ call.pc = "sent"
  /\ LET rd == ReadAll(call.res, call.ctx)
         um == Unmarshal(call.res.body) IN
     call' = IF ~rd.ok
               THEN [call EXCEPT !.pc = "returned", !.err = rd.err,
                                 !.closes = @ + DeferredClose("read")]
             ELSE IF ~um.ok
               THEN [call EXCEPT !.pc = "returned", !.err = um.err,
                                 !.closes = @ + DeferredClose("decode")]
             ELSE [call EXCEPT !.pc = "returned", !.value = "decoded",
                               !.closes = @ + DeferredClose("ok")]
  /\ CallFrame

\* The clock stops at MaxTime unless a deadline is pending.
ClockMayAdvance ==
  IF call.pc = "do" /\ call.ctx.hasDeadline THEN now < call.ctx.deadline \/ now < MaxTime
  ELSE now < MaxTime

\* Time passes.
Tick ==
  /\ ClockMayAdvance
  /\ now' = now + 1
  /\ UNCHANGED <<client, heap, callerMaps, requests, call, calls, hist,
                 setterDefaults, callerView, iter, race>>

(***************************************************************************)
(* The inputs tried.                                                       *)
(***************************************************************************)
\* "https://api.example.com"
GoodBase == <<"H">>
GetMethod == <<"G", "E", "T">>
ItemsPath == <<"/", "a">>

HeaderKeys == {<<"x">>, <<"X">>, ContentTypeLower}
HeaderValues == {IntValue(1), StrValue(<<"2">>)}
MapLiterals == {[k \in {<<"x">>} |-> <<"1">>]}
JSONValues == {"obj", "chan"}
Endpoints == {"responds", "silent", "refuses"}
BodyKinds == {"valid", "mismatch", "malformed"}

(***************************************************************************)
(* Spec: a program that configures a Client, builds Requests and sends     *)
(* them, one call after the other.                                         *)
(***************************************************************************)
Init == InitWith(GoodBase)

Next ==
  \/ \E m \in MapLiterals : CallerMakeMap(m)
  \/ \E h \in 1..MaxMaps, k \in HeaderKeys, v \in HeaderValues : CallerMutate(h, k, Sprintf(v))
  \/ \E h \in 0..MaxMaps : SetDefaultHeaders(h)
  \/ \E k \in HeaderKeys, v \in HeaderValues : AddDefaultHeader(k, v)
  \/ NewRequest(GetMethod, ItemsPath)
  \/ \E r \in 1..MaxRequests, k \in HeaderKeys, v \in HeaderValues : SetHeader(r, k, v)
  \/ \E r \in 1..MaxRequests, v \in JSONValues : SetJSONBody(r, v)
  \/ \E r \in 1..MaxRequests : SetBody(r, "raw")
  \/ \E r \in 1..MaxRequests : SendWithCtx(r, Background, "responds")
  \/ TransportRespond("valid", TRUE)

Spec == Init /\ [][Next]_vars

(***************************************************************************)
(* C1.  Header isolation: a step that changes the Client's default headers *)
(* changes the Headers of no Request that exists; a SetHeader on a Request *)
(* (also the one inside SetJSONBody) changes neither the Client's default  *)
(* headers nor the Headers of any other Request.                           *)
(***************************************************************************)
SetsHeaderOf(r) ==
  \/ \E k \in HeaderKeys, v \in HeaderValues : SetHeader(r, k, v)
  \/ \E v \in JSONValues : SetJSONBody(r, v)

IsolationStep ==
  /\ DefaultView' # DefaultView =>
       \A r \in 1..Len(requests) : HeadersOf(r)' = HeadersOf(r)
  /\ \A r \in 1..Len(requests) :
       SetsHeaderOf(r) =>
         /\ DefaultView' = DefaultView
         /\ \A r2 \in 1..Len(requests) : r2 # r => HeadersOf(r2)' = HeadersOf(r2)

HeaderIsolation == [][IsolationStep]_vars

\* Two Requests seeded from the same non-empty defaults, the first one
\* changed by SetHeader since: the second and the Client still hold the
\* defaults.
HeaderIsolationWitness ==
  /\ Len(requests) = 2
  /\ hist[1].seeded # EmptyMap
  /\ hist[1].written # EmptyMap
  /\ HeadersOf(1) # hist[1].seeded
  /\ HeadersOf(2) = hist[2].seeded
  /\ DefaultView = hist[1].seeded

(***************************************************************************)
(* C7.  Last write wins at dispatch: the outgoing request carries, for     *)
(* every canonical header name written by SetHeader after NewRequest, the  *)
(* value of the last such write, and for every other seeded name a value   *)
(* it was seeded with.                                                     *)
(***************************************************************************)
LastWriteWins ==
  call.pc = "do" =>
    LET H == call.out.Header
        w == hist[call.req].written
        sd == hist[call.req].seeded IN
    /\ \A n \in DOMAIN w : n \in DOMAIN H /\ H[n] = w[n]
    /\ \A k \in DOMAIN sd :
         CanonicalKey(k) \notin DOMAIN w =>
           /\ CanonicalKey(k) \in DOMAIN H
           /\ \E k2 \in DOMAIN sd :
                CanonicalKey(k2) = CanonicalKey(k) /\ H[CanonicalKey(k)] = sd[k2]

(***************************************************************************)
(* C10.  The default headers change only through the Client's setters:     *)
(* they are what the calls of SetDefaultHeaders and AddDefaultHeader made  *)
(* them, and every map of the caller is what the caller's own writes made  *)
(* it.                                                                     *)
(***************************************************************************)
DefaultsOnlyBySetters ==
  /\ DefaultView = setterDefaults
  /\ \A h \in callerMaps : heap[h] = callerView[h]

(***************************************************************************)
(* UrlSpec: NewClient(b) and NewRequest(m, p) for every base URL, method   *)
(* and path tried, then SetQuery and dispatch.                             *)
(***************************************************************************)
BasePathChars == {"/", "a", "."}
BasePaths == {p \in StrsUpTo(BasePathChars, MaxBasePathLen) : p = <<>> \/ p[1] = "/"}
BaseQueries == {<<>>, <<"?", "k", "=", "1">>}
\* ":" has no scheme before the colon, "%" is a broken escape.
BadBases == {<<":">>, <<"H", "/", "%">>}
BaseURLs == {h \o p \o q : h \in {<<>>, GoodBase}, p \in BasePaths, q \in BaseQueries}
            \cup BadBases
UrlPaths == StrsUpTo(BasePathChars, MaxPathLen)
            \cup {<<"/", "a", "?", "q", "=", "2">>}
Methods == {GetMethod, <<"G", " ">>}
QueryKeys == {<<"k">>}
QueryValues == {StrValue(<<"v", "1">>)}

\* The state after NewClient(b) and then NewRequest(m, p), at time 0.
InitWithRequest(b, m, p) ==
  /\ client = NewClient(b)
  /\ heap = <<EmptyMap>>
  /\ callerMaps = {}
  /\ requests = <<[baseURL |-> b, Method |-> m, Path |-> p, Query |-> EmptyMap,
                   Body |-> "", Headers |-> 1, Timeout |-> DefaultTimeout]>>
  /\ call = IdleCall
  /\ now = 0
  /\ calls = 0
  /\ hist = <<[created |-> 0, seeded |-> EmptyMap, snaps |-> {EmptyMap},
               written |-> EmptyMap]>>
  /\ setterDefaults = EmptyMap
  /\ callerView = EmptyMap
  /\ iter = IdleIter
  /\ race = FALSE

UrlInit == \E b \in BaseURLs, m \in Methods, p \in UrlPaths : InitWithRequest(b, m, p)

UrlNext ==
  \/ \E k \in QueryKeys, v \in QueryValues : SetQuery(1, k, v)
  \/ SendWithCtx(1, Background, "responds")
  \/ TransportRespond("valid", TRUE)

UrlSpec == UrlInit /\ [][UrlNext]_vars

(***************************************************************************)
(* C2.  Base URL without a trailing separator, Request path with one: the  *)
(* path of the outgoing URL ends with exactly one separator.               *)
(***************************************************************************)
EndsWithOneSeparator(p) ==
  HasSuffix(p, "/") /\ ~(Len(p) >= 2 /\ p[Len(p) - 1] = "/")

TrailingSeparator ==
  call.pc = "do" =>
    LET rq == requests[call.req]
        B == Parse(rq.baseURL) IN
    (~HasSuffix(rq.baseURL, "/") /\ ~HasSuffix(B.Path, "/") /\ HasSuffix(rq.Path, "/"))
      => EndsWithOneSeparator(call.out.URL.Path)

(***************************************************************************)
(* C3.  A dispatch never crashes, whatever the base URL: it returns.       *)
(***************************************************************************)
DispatchNeverPanics == call.pc # "panicked"

(***************************************************************************)
(* C8.  Query merging: the query of the outgoing URL holds every entry set *)
(* with SetQuery and every parameter of the base URL and of the Request's  *)
(* path.                                                                   *)
(***************************************************************************)
HasParam(q, k, v) == k \in DOMAIN q /\ \E i \in 1..Len(q[k]) : q[k][i] = v

\* The parameters written in s after its first "?".
ParamsIn(s) ==
  IF Index(s, "?") = 0 THEN EmptyValues
  ELSE ParseQuery(SubSeq(s, Index(s, "?") + 1, Len(s)))

QueryMerged ==
  call.pc = "do" =>
    LET rq == requests[call.req]
        q == ParseQuery(call.out.URL.RawQuery) IN
    /\ \A k \in DOMAIN rq.Query : HasParam(q, k, rq.Query[k])
    /\ \A s \in {rq.baseURL, rq.Path} :
         \A k \in DOMAIN ParamsIn(s) :
           \A i \in 1..Len(ParamsIn(s)[k]) : HasParam(q, k, ParamsIn(s)[k][i])

(***************************************************************************)
(* SendSpec: Requests with their timeouts, the three dispatch operations,  *)
(* the endpoint and the clock.  Time passes and a deadline that has been   *)
(* reached fires: both are weakly fair.                                    *)
(***************************************************************************)
SendInit == InitWithRequest(GoodBase, GetMethod, ItemsPath)

SendNext ==
  \/ \E d \in 0..MaxTimeout : SetTimeout(1, d)
  \/ \E ep \in Endpoints : Send(1, ep)
  \/ \E ep \in Endpoints, ctx \in {WithCancel, WithDeadline(now + 1)} : SendWithCtx(1, ctx, ep)
  \/ \E ep \in Endpoints : SendWithJSONResponse(1, ep)
  \/ \E b \in BodyKinds, buffered \in BOOLEAN : TransportRespond(b, buffered)
  \/ TransportFail
  \/ CtxDeadline
  \/ ExternalCancel
  \/ ReadAndDecode
  \/ Tick

SendSpec == SendInit /\ [][SendNext]_vars /\ WF_vars(Tick) /\ WF_vars(CtxDeadline)

(***************************************************************************)
(* C4.  SendWithJSONResponse on a response whose body is valid JSON for T  *)
(* returns the decoded value and a nil error.                              *)
(***************************************************************************)
ValidBodyDecodes ==
  (call.entry = "SendWithJSONResponse" /\ call.pc = "returned"
     /\ ~call.res.nil /\ call.res.body = "valid")
    => (call.err = "" /\ call.value = "decoded")

(***************************************************************************)
(* C5.  Send against an endpoint that never responds returns, with a nil   *)
(* response and the deadline error, and not before Timeout has passed      *)
(* since Send was called.                                                  *)
(***************************************************************************)
WaitingOnSilent ==
  call.pc = "do" /\ call.entry = "Send" /\ call.endpoint = "silent"

TimedOut ==
  /\ call.pc = "returned" /\ call.entry = "Send" /\ call.endpoint = "silent"
  /\ call.res.nil /\ call.err = "context deadline exceeded"

TimeoutBounded ==
  /\ [](call.pc = "returned" /\ call.entry = "Send" /\ call.endpoint = "silent"
          => TimedOut /\ now >= call.start + call.timeout)
  /\ (WaitingOnSilent ~> TimedOut)

\* A Request made at time 0 and sent later has timed out, a full Timeout
\* after Send was called.
TimeoutBoundedWitness ==
  /\ TimedOut
  /\ call.timeout > 0
  /\ call.start > hist[call.req].created
  /\ now = call.start + call.timeout

(***************************************************************************)
(* C6.  SendWithJSONResponse closes the body of the response exactly once  *)
(* on every return after a successful dispatch, and closes nothing when    *)
(* the dispatch failed.                                                    *)
(***************************************************************************)
BodyClosedOnce ==
  /\ call.closes <= 1
  /\ call.pc = "sent" => call.closes = 0
  /\ (call.entry = "SendWithJSONResponse" /\ call.pc = "returned")
       => call.closes = (IF call.res.nil THEN 0 ELSE 1)

\* The return after a failed read of the body.
BodyClosedOnceWitness ==
  /\ call.entry = "SendWithJSONResponse" /\ call.pc = "returned"
  /\ ~call.res.nil /\ call.err = "context canceled"
  /\ call.closes = 1

(***************************************************************************)
(* ConcSpec: one goroutine calls the Client's setters while another runs   *)
(* NewRequest.                                                             *)
(***************************************************************************)
ConcInit == InitWith(GoodBase)

ConcNext ==
  \/ \E m \in MapLiterals : CallerMakeMap(m)
  \/ \E h \in 0..MaxMaps : SetDefaultHeaders(h)
  \/ \E k \in HeaderKeys, v \in HeaderValues : AddDefaultHeader(k, v)
  \/ NewRequestBegin(GetMethod, ItemsPath)
  \/ NewRequestStep
  \/ NewRequestEnd

ConcSpec == ConcInit /\ [][ConcNext]_vars

(***************************************************************************)
(* C9.  Atomic snapshot: no write of a map happens while NewRequest        *)
(* iterates it, and the Headers of every Request are the default headers   *)
(* as they stood at one moment of the NewRequest call that made it.        *)
(***************************************************************************)
AtomicSnapshot ==
  /\ ~race
  /\ \A r \in 1..Len(requests) : hist[r].seeded \in hist[r].snaps

=============================================================================
